---- MODULE Spec2Model ----
(***************************************************************************)
(* Model of the two programs of the repository that carry rules:          *)
(*   - src/youtube-agent.py, simulate_ad_events: the ad-event generator;  *)
(*   - src/ads-agent.py, YouTubeAdAnalyzer: ingestion and summary report. *)
(* A behaviour of Spec is one call of simulate_ad_events; a behaviour of  *)
(* SpecTwice is a caller making successive calls in one process; a        *)
(* behaviour of SpecAnalyzer is one YouTubeAdAnalyzer object after its    *)
(* construction, asked for its summary report a number of times.          *)
(***************************************************************************)
EXTENDS Integers, Sequences, FiniteSets, TLC

VARIABLES
    pc,              \* position of the running program
    video_id,        \* simulate_ad_events: argument
    video_duration,  \* simulate_ad_events: argument
    ad_events,       \* simulate_ad_events: the local list being built
    i,               \* simulate_ad_events: loop variable of the mid-roll loop
    now,             \* the wall clock (ms since the process started)
    draws,           \* outcomes of the calls to the global random module, in order
    returned,        \* what the completed calls of simulate_ad_events returned
    self_ad_events,  \* YouTubeAdAnalyzer.ad_events (raw records)
    df,              \* YouTubeAdAnalyzer.df (rows)
    report,          \* value returned by the last generate_summary_report
    reports          \* number of generate_summary_report calls made

vars == <<pc, video_id, video_duration, ad_events, i, now, draws, returned,
          self_ad_events, df, report, reports>>

genVars == <<video_id, video_duration, ad_events, i, now, draws, returned>>
anaVars == <<self_ad_events, df, report, reports>>

----------------------------------------------------------------------------
(* Bounds of the model *)

MinDuration == -2
MaxDuration == 1262
MaxNow == 2
MaxCalls == 2

\* Durations tried: every value of the dense range (it holds the thresholds
\* 0, 600, 601, 660, 1200, 1260) and longer sample videos (two and three
\* mid-rolls, with and without the clamp on the last one).
Durations == (MinDuration .. MaxDuration) \cup {1500, 1800, 1830}

VideoIds == {"", "v1"}

----------------------------------------------------------------------------
(* Program constants of simulate_ad_events *)

MidRollInterval == 600
EndMargin == 60

Min(a, b) == IF a <= b THEN a ELSE b

PreRollDurations == {15, 30}
MidRollAdTypes == {"skippable", "bumper"}
MidRollDurations == {6, 30}

\* (a variant: the threshold compared with >=)
HasMidRollsFrom600(d) == d >= MidRollInterval

\* if video_duration > 600
HasMidRolls(d) == d > MidRollInterval

\* (a variant: one more break than the intervals that fit)
MidRollCountPlusOne(d) == (d \div MidRollInterval) + 1

\* mid_roll_count = (video_duration // 600)
MidRollCount(d) == d \div MidRollInterval

\* (a variant: the offset without the clamp to the last minute)
StartTimeSecNoClamp(k, d) == k * MidRollInterval

\* start_time_sec = min(i * 600, video_duration - 60)
StartTimeSec(k, d) == Min(k * MidRollInterval, d - EndMargin)

\* (a variant: the offset subtracted from the clock instead of added)
TimestampBefore(t, s) == t - s * 1000

\* datetime.now().timestamp() * 1000, and
\* (datetime.now() + timedelta(seconds=s)).timestamp() * 1000
Timestamp(t, s) == t + s * 1000

PreRollEvent(vid, dur, t) ==
    [video_id |-> vid, ad_type |-> "non-skippable", position |-> "pre-roll",
     duration |-> dur, video_time |-> 0, startTime |-> Timestamp(t, 0)]

MidRollEvent(vid, ty, dur, k, d, t) ==
    [video_id |-> vid, ad_type |-> ty, position |-> "mid-roll",
     duration |-> dur, video_time |-> StartTimeSec(k, d),
     startTime |-> Timestamp(t, StartTimeSec(k, d) + 5)]

\* (a variant: the post-roll keeps the pre-roll's video_time)
PostRollEventAtZero(vid, d, t) ==
    [video_id |-> vid, ad_type |-> "display", position |-> "post-roll",
     duration |-> 5, video_time |-> 0, startTime |-> Timestamp(t, d + 10)]

PostRollEvent(vid, d, t) ==
    [video_id |-> vid, ad_type |-> "display", position |-> "post-roll",
     duration |-> 5, video_time |-> d, startTime |-> Timestamp(t, d + 10)]

\* One read of datetime.now(): the clock does not go backwards.
ClockReads == now .. Min(now + 1, MaxNow)

----------------------------------------------------------------------------
(* simulate_ad_events *)

GenInit(ds) ==
    /\ pc = "pre_roll"
    /\ video_id \in VideoIds
    /\ video_duration \in ds
    /\ ad_events = <<>>
    /\ i = 0
    /\ now = 0
    /\ draws = <<>>
    /\ returned = <<>>
    /\ self_ad_events = <<>>
    /\ df = <<>>
    /\ report = [text |-> "none"]
    /\ reports = 0

\* ad_events = []; the pre-roll is appended unconditionally
PreRoll ==
    /\ pc = "pre_roll"
    /\ \E dur \in PreRollDurations, t \in ClockReads :
          /\ ad_events' = Append(ad_events, PreRollEvent(video_id, dur, t))
          /\ draws' = Append(draws, [choice |-> dur])
          /\ now' = t
    /\ i' = 1
    /\ pc' = "mid_roll"
    /\ UNCHANGED <<video_id, video_duration, returned>>
    /\ UNCHANGED anaVars

\* one iteration of: for i in range(1, mid_roll_count + 1)
MidRoll ==
    /\ pc = "mid_roll"
    /\ HasMidRolls(video_duration)
    /\ i <= MidRollCount(video_duration)
    /\ \E ty \in MidRollAdTypes, dur \in MidRollDurations, t \in ClockReads :
          /\ ad_events' = Append(ad_events,
                 MidRollEvent(video_id, ty, dur, i, video_duration, t))
          /\ draws' = draws \o <<[choice |-> ty], [choice |-> dur]>>
          /\ now' = t
    /\ i' = i + 1
    /\ UNCHANGED <<pc, video_id, video_duration, returned>>
    /\ UNCHANGED anaVars

\* the video is not longer than 600 s, or the loop is exhausted
MidRollDone ==
    /\ pc = "mid_roll"
    /\ ~(HasMidRolls(video_duration) /\ i <= MidRollCount(video_duration))
    /\ pc' = "post_roll"
    /\ UNCHANGED genVars
    /\ UNCHANGED anaVars

\* if random.random() < 0.2: append the post-roll
PostRoll ==
    /\ pc = "post_roll"
    /\ \E hit \in BOOLEAN :
          /\ draws' = Append(draws, [below |-> hit])
          /\ IF hit
             THEN \E t \in ClockReads :
                     /\ ad_events' = Append(ad_events,
                            PostRollEvent(video_id, video_duration, t))
                     /\ now' = t
             ELSE UNCHANGED <<ad_events, now>>
    /\ pc' = "return"
    /\ UNCHANGED <<video_id, video_duration, i, returned>>
    /\ UNCHANGED anaVars

\* return ad_events
Return ==
    /\ pc = "return"
    /\ returned' = Append(returned,
           [video_id |-> video_id, video_duration |-> video_duration,
            draws |-> draws, events |-> ad_events])
    /\ pc' = "done"
    /\ UNCHANGED <<video_id, video_duration, ad_events, i, now, draws>>
    /\ UNCHANGED anaVars

Init == GenInit(Durations)

Next == PreRoll \/ MidRoll \/ MidRollDone \/ PostRoll \/ Return

Spec == Init /\ [][Next]_vars

----------------------------------------------------------------------------
(* A caller making successive calls in one process, as the loop of         *)
(* run_ad_agent does: the clock and the global random module are shared.   *)

TwiceDurations == {0, 601, 660}

CallAgain ==
    /\ pc = "done"
    /\ Len(returned) < MaxCalls
    /\ \E vid \in VideoIds, d \in TwiceDurations :
          /\ video_id' = vid
          /\ video_duration' = d
    /\ ad_events' = <<>>
    /\ draws' = <<>>
    /\ i' = 0
    /\ pc' = "pre_roll"
    /\ UNCHANGED <<now, returned>>
    /\ UNCHANGED anaVars

InitTwice == GenInit(TwiceDurations)

NextTwice == Next \/ CallAgain

SpecTwice == InitTwice /\ [][NextTwice]_vars

----------------------------------------------------------------------------
(* YouTubeAdAnalyzer: the raw records of the input file                    *)

MaxEvents == 6
MaxReports == 2

\* The records a file may hold; a key that is absent is a missing field.
\* Values are typed as the exporter writes them: strings and non-negative
\* integers (no JSON null, no negative duration).
RawRecords == <<
    [videoId |-> "v1", adType |-> "non-skippable", position |-> "pre-roll",
     duration |-> 15, videoTime |-> 0, startTime |-> 0],
    [videoId |-> "v1", adType |-> "skippable", position |-> "mid-roll",
     duration |-> 30, videoTime |-> 600, startTime |-> 3600000],
    [videoId |-> "v2", adType |-> "non-skippable", position |-> "pre-roll",
     duration |-> 30, videoTime |-> 0, startTime |-> 90000000],
    [videoId |-> "v10", adType |-> "bumper", position |-> "mid-roll",
     duration |-> 6, videoTime |-> 540, startTime |-> 3600000],
    [videoId |-> "a7", adType |-> "display", position |-> "post-roll",
     duration |-> 5, videoTime |-> 700, startTime |-> 90000000],
    << >>,
    [videoId |-> "V3", position |-> "mid-roll", duration |-> 6] >>

Range(f) == {f[k] : k \in DOMAIN f}

\* The files tried: the arrangements of up to MaxEvents different records
\* (sequences of indices into RawRecords).
RECURSIVE Arrangements(_)
Arrangements(n) ==
    IF n = 0 THEN {<< >>}
    ELSE UNION {{Append(a, r) : r \in DOMAIN RawRecords \ Range(a)} :
                   a \in Arrangements(n - 1)}

Corpora == UNION {Arrangements(n) : n \in 0 .. MaxEvents}

\* json.load of the file an arrangement describes
Records(a) == [k \in DOMAIN a |-> RawRecords[a[k]]]

----------------------------------------------------------------------------
(* YouTubeAdAnalyzer.create_dataframe *)

\* event.get(key, default)
Get(event, key, default) ==
    IF key \in DOMAIN event THEN event[key] ELSE default

\* pd.to_datetime(ms, unit='ms'): the instant, kept as ms since the epoch
ToDatetime(ms) == ms

Row(event) ==
    [video_id   |-> Get(event, "videoId", "unknown"),
     ad_type    |-> Get(event, "adType", "unknown"),
     position   |-> Get(event, "position", "unknown"),
     duration   |-> Get(event, "duration", 0),
     video_time |-> Get(event, "videoTime", 0),
     timestamp  |-> ToDatetime(Get(event, "startTime", 0))]

\* (a variant: a record that lacks one of the six keys is left out)
create_dataframe_strict(events) ==
    LET Complete(e) == DOMAIN e = {"videoId", "adType", "position",
                                   "duration", "videoTime", "startTime"}
        kept == SelectSeq(events, Complete)
    IN  [k \in 1 .. Len(kept) |-> Row(kept[k])]

\* if not self.ad_events: return pd.DataFrame()
create_dataframe(events) ==
    IF events = << >> THEN << >>
    ELSE [k \in 1 .. Len(events) |-> Row(events[k])]

----------------------------------------------------------------------------
(* pandas operations used by generate_summary_report                       *)

Column(d, name) == [k \in 1 .. Len(d) |-> d[k][name]]

RECURSIVE SeqSum(_)
SeqSum(col) ==
    IF col = << >> THEN 0
    ELSE col[Len(col)] + SeqSum(SubSeq(col, 1, Len(col) - 1))

\* the distinct values of a column, in the order of their first occurrence
RECURSIVE Unique(_)
Unique(col) ==
    IF col = << >> THEN << >>
    ELSE LET front == Unique(SubSeq(col, 1, Len(col) - 1))
             last == col[Len(col)]
         IN  IF \E k \in 1 .. Len(front) : front[k] = last
             THEN front
             ELSE Append(front, last)

\* Series.nunique()
nunique(col) == Len(Unique(col))

CountOf(col, v) == Cardinality({k \in 1 .. Len(col) : col[k] = v})

\* insertion of x into a sequence ordered by the relation before (a set of
\* pairs), after the elements it is not before (stable)
RECURSIVE InsertOrdered(_, _, _)
InsertOrdered(sorted, x, before) ==
    IF sorted = << >> THEN <<x>>
    ELSE LET last == sorted[Len(sorted)]
         IN  IF <<x, last>> \in before
             THEN Append(InsertOrdered(SubSeq(sorted, 1, Len(sorted) - 1),
                                       x, before), last)
             ELSE Append(sorted, x)

RECURSIVE SortedBy(_, _)
SortedBy(col, before) ==
    IF col = << >> THEN << >>
    ELSE InsertOrdered(SortedBy(SubSeq(col, 1, Len(col) - 1), before),
                       col[Len(col)], before)

Pairs(col) == Range(col) \X Range(col)
MoreFrequent(col) == {p \in Pairs(col) : p[1].count > p[2].count}
SmallerKey(col) == {p \in Pairs(col) : p[1].key < p[2].key}
Smaller(col) == {p \in Pairs(col) : p[1] < p[2]}

\* the occurring values with their counts, in the order of first occurrence
Counted(col) ==
    LET keys == Unique(col)
    IN  [k \in 1 .. Len(keys) |-> [key |-> keys[k], count |-> CountOf(col, keys[k])]]

\* Series.value_counts(): most frequent first; equal counts keep the order of
\* first occurrence (the sort is stable for the fewer than 17 values here)
value_counts(col) == SortedBy(Counted(col), MoreFrequent(Counted(col)))

\* Series.sort_index() of a value_counts result
sort_index(counts) == SortedBy(counts, SmallerKey(counts))

\* Series.idxmax(): the label of the first row holding the largest count
idxmax(counts) ==
    LET k == CHOOSE j \in 1 .. Len(counts) :
                 /\ \A m \in 1 .. Len(counts) : counts[m].count <= counts[j].count
                 /\ \A m \in 1 .. (j - 1) : counts[m].count < counts[j].count
    IN  counts[k]

\* an exact quotient num/den, as the floating-point value the code holds
Quotient(n, d) == [num |-> n, den |-> d]

\* f"{x:.1f}" and .round(1): x in tenths, rounded to the nearest tenth, a tie
\* to the even tenth (the ties met here, .25 and .75, are exact in binary).
Format1f(x) ==
    LET q == (10 * x.num) \div x.den
        r == (10 * x.num) % x.den
    IN  IF 2 * r < x.den THEN q
        ELSE IF 2 * r > x.den THEN q + 1
        ELSE IF q % 2 = 0 THEN q ELSE q + 1

Shown(x) == [value |-> x, shown |-> Format1f(x)]

\* Series.min(), Series.max()
SeriesMin(col) == CHOOSE v \in Range(col) : \A w \in Range(col) : v <= w
SeriesMax(col) == CHOOSE v \in Range(col) : \A w \in Range(col) : w <= v

\* (a variant: the mean over N - 1)
SeriesMeanSample(col) ==
    Quotient(SeqSum(col), IF Len(col) > 1 THEN Len(col) - 1 ELSE 1)

\* Series.mean()
SeriesMean(col) == Quotient(SeqSum(col), Len(col))

\* (a variant: the upper of the two central values for an even count)
SeriesMedianUpper(col) ==
    LET sorted == SortedBy(col, Smaller(col))
    IN  Quotient(sorted[(Len(col) \div 2) + 1], 1)

\* Series.median()
SeriesMedian(col) ==
    LET sorted == SortedBy(col, Smaller(col))
        n == Len(col)
    IN  IF n % 2 = 1
        THEN Quotient(sorted[(n + 1) \div 2], 1)
        ELSE Quotient(sorted[n \div 2] + sorted[(n \div 2) + 1], 2)

\* the code points of the video ids met, for the comparison of str values
CodePoints(str) ==
    CASE str = "V3"      -> <<86, 51>>
      [] str = "a7"      -> <<97, 55>>
      [] str = "unknown" -> <<117, 110, 107, 110, 111, 119, 110>>
      [] str = "v1"      -> <<118, 49>>
      [] str = "v10"     -> <<118, 49, 48>>
      [] str = "v2"      -> <<118, 50>>

\* Python's < on two str values: lexicographic on the code points
RECURSIVE LexLess(_, _)
LexLess(a, b) ==
    IF b = << >> THEN FALSE
    ELSE IF a = << >> THEN TRUE
    ELSE IF Head(a) # Head(b) THEN Head(a) < Head(b)
    ELSE LexLess(Tail(a), Tail(b))

StrLess(a, b) == LexLess(CodePoints(a), CodePoints(b))

SmallerStr(col) == {p \in Pairs(col) : StrLess(p[1], p[2])}

\* (a variant: the groups kept in the order of first occurrence, sort=False)
GroupKeysUnsorted(col) == Unique(col)

\* DataFrame.groupby(key): the group keys, sorted (sort=True is the default)
GroupKeys(col) == SortedBy(Unique(col), SmallerStr(Unique(col)))

\* df.groupby('video_id').agg({'duration': ['count', 'mean', 'sum']}).round(1)
VideoStats(d) ==
    LET keys == GroupKeys(Column(d, "video_id"))
        Of(v) == Column(SelectSeq(d, LAMBDA row : row.video_id = v), "duration")
    IN  [k \in 1 .. Len(keys) |->
            [video_id |-> keys[k],
             count    |-> Len(Of(keys[k])),
             mean     |-> Shown(SeriesMean(Of(keys[k]))),
             sum      |-> SeqSum(Of(keys[k]))]]

\* video_stats.index[:5]
TopVideos == 5
FirstRows(rows, n) == SubSeq(rows, 1, Min(n, Len(rows)))

\* Series.dt.hour and Series.dt.day_name() of a naive timestamp (the epoch,
\* ms 0, is Thursday 00:00)
DayNames == <<"Monday", "Tuesday", "Wednesday", "Thursday", "Friday",
              "Saturday", "Sunday">>
Hour(ts) == (ts \div 3600000) % 24
DayName(ts) == DayNames[(((ts \div 86400000) + 3) % 7) + 1]

\* 'timestamp' in self.df.columns
HasColumn(d, name) == name \in DOMAIN d[1]

----------------------------------------------------------------------------
(* YouTubeAdAnalyzer.generate_summary_report *)

NoDataReport == [text |-> "No data available for analysis"]

\* percentage = (count / total_ads) * 100
Percentage(count, total_ads) == Quotient(count * 100, total_ads)

\* the lines "  {name}: {count} ({percentage:.1f}%)" of one distribution
Distribution(counts, total_ads) ==
    [k \in 1 .. Len(counts) |->
        [name |-> counts[k].key, count |-> counts[k].count,
         percentage |-> Shown(Percentage(counts[k].count, total_ads))]]

\* (a variant: the rows whose ad_type is the sentinel left out of the counts)
ad_types_dropping_unknown(d) ==
    value_counts(SelectSeq(Column(d, "ad_type"), LAMBDA v : v # "unknown"))

\* ad_types = self.df['ad_type'].value_counts()
ad_types(d) == value_counts(Column(d, "ad_type"))

\* positions = self.df['position'].value_counts()
positions(d) == value_counts(Column(d, "position"))

\* the "Temporal Patterns" lines
TemporalPatterns(d) ==
    LET stamps == Column(d, "timestamp")
        hourly_dist == sort_index(value_counts(
                           [k \in 1 .. Len(stamps) |-> Hour(stamps[k])]))
        daily_dist == value_counts(
                           [k \in 1 .. Len(stamps) |-> DayName(stamps[k])])
    IN  [peak_hour     |-> idxmax(hourly_dist).key,
         peak_hour_ads |-> idxmax(hourly_dist).count,
         peak_day      |-> idxmax(daily_dist).key,
         peak_day_ads  |-> idxmax(daily_dist).count]

\* the report of a DataFrame that has rows: the values the lines are made of,
\* each fraction with the one-decimal form the line shows
FullReport(d) ==
    LET total_ads == Len(d)
        unique_videos == nunique(Column(d, "video_id"))
        durations == Column(d, "duration")
    IN  [text          |-> "YOUTUBE AD ANALYTICS REPORT",
         total_ads     |-> total_ads,
         unique_videos |-> unique_videos,
         avg_duration  |-> Shown(SeriesMean(durations)),
         ad_types      |-> Distribution(ad_types(d), total_ads),
         positions     |-> Distribution(positions(d), total_ads),
         shortest      |-> SeriesMin(durations),
         longest       |-> SeriesMax(durations),
         median        |-> Shown(SeriesMedian(durations)),
         per_video     |-> IF unique_videos > 1
                           THEN FirstRows(VideoStats(d), TopVideos)
                           ELSE << >>,
         temporal      |-> IF HasColumn(d, "timestamp")
                           THEN <<TemporalPatterns(d)>>
                           ELSE << >>]

\* (a variant: no test for the empty DataFrame, the statistics set to zero)
summary_report_unguarded(d) ==
    IF Len(d) = 0
    THEN [text |-> "YOUTUBE AD ANALYTICS REPORT", total_ads |-> 0,
          unique_videos |-> 0, ad_types |-> << >>, positions |-> << >>]
    ELSE FullReport(d)

\* if self.df.empty: return "No data available for analysis"
summary_report(d) ==
    IF Len(d) = 0 THEN NoDataReport ELSE FullReport(d)

AnalyzerInit ==
    /\ pc = "constructed"
    /\ \E a \in Corpora : self_ad_events = Records(a)
    /\ df = create_dataframe(self_ad_events)
    /\ report = [text |-> "none"]
    /\ reports = 0
    /\ video_id = ""
    /\ video_duration = 0
    /\ ad_events = << >>
    /\ i = 0
    /\ now = 0
    /\ draws = << >>
    /\ returned = << >>

\* (a variant: the timestamp column dropped from self.df once it was used)
GenerateSummaryReportDroppingColumn ==
    /\ pc = "constructed"
    /\ reports < MaxReports
    /\ report' = summary_report(df)
    /\ reports' = reports + 1
    /\ df' = [k \in 1 .. Len(df) |->
                 [f \in DOMAIN df[k] \ {"timestamp"} |-> df[k][f]]]
    /\ UNCHANGED <<pc, self_ad_events>>
    /\ UNCHANGED genVars

\* one call of generate_summary_report: it reads self.df and assigns nothing
GenerateSummaryReport ==
    /\ pc = "constructed"
    /\ reports < MaxReports
    /\ report' = summary_report(df)
    /\ reports' = reports + 1
    /\ UNCHANGED <<pc, self_ad_events, df>>
    /\ UNCHANGED genVars

NextAnalyzer == GenerateSummaryReport

SpecAnalyzer == AnalyzerInit /\ [][NextAnalyzer]_vars

----------------------------------------------------------------------------
(* The events returned by simulate_ad_events, written out as they are and  *)
(* given to a YouTubeAdAnalyzer as its input file.                         *)

PipelineDurations == {600, 660, 1500}

\* YouTubeAdAnalyzer.__init__ on the returned list: load_data, create_dataframe
Ingest ==
    /\ pc = "done"
    /\ self_ad_events' = ad_events
    /\ df' = create_dataframe(ad_events)
    /\ pc' = "constructed"
    /\ UNCHANGED <<report, reports>>
    /\ UNCHANGED genVars

InitPipeline == GenInit(PipelineDurations)

NextPipeline == Next \/ Ingest

SpecPipeline == InitPipeline /\ [][NextPipeline]_vars

----------------------------------------------------------------------------
(* Properties of simulate_ad_events *)

Positions(evs, p) == {k \in 1 .. Len(evs) : evs[k].position = p}

Done == pc = "done"

\* C1 as stated: a video of 0..600 s yields exactly one event, the pre-roll.
C1_OnlyPreRoll ==
    (Done /\ video_duration >= 0 /\ video_duration <= 600) =>
        /\ Len(ad_events) = 1
        /\ ad_events[1].position = "pre-roll"

\* C1 amended: a video of 0..600 s yields the pre-roll first, no mid-roll,
\* and at most one post-roll after it (one or two events in all).
C1_PreRollAndMaybePostRoll ==
    (Done /\ video_duration >= 0 /\ video_duration <= 600) =>
        /\ Len(ad_events) \in {1, 2}
        /\ ad_events[1].position = "pre-roll"
        /\ Positions(ad_events, "mid-roll") = {}
        /\ Len(ad_events) = 2 => ad_events[2].position = "post-roll"

C1_Witness ==
    /\ Done
    /\ video_duration = 600
    /\ Len(ad_events) = 2
    /\ ad_events[2].position = "post-roll"

\* C2: a video longer than 600 s yields one pre-roll, floor(d/600) mid-rolls
\* and at most one post-roll; the k-th mid-roll is at min(k*600, d-60), which
\* is at most d-60.
C2_MidRollCountAndOffsets ==
    (Done /\ video_duration > 600) =>
        LET n == video_duration \div 600
            posts == Positions(ad_events, "post-roll")
        IN  /\ Positions(ad_events, "pre-roll") = {1}
            /\ Positions(ad_events, "mid-roll") = 2 .. (n + 1)
            /\ Cardinality(posts) <= 1
            /\ Len(ad_events) = 1 + n + Cardinality(posts)
            /\ \A k \in 1 .. n :
                  /\ ad_events[k + 1].video_time =
                        (IF k * 600 <= video_duration - 60
                         THEN k * 600 ELSE video_duration - 60)
                  /\ ad_events[k + 1].video_time <= video_duration - 60

\* the scenario of the specification: 1500 s, mid-rolls at 600 and 1200
C2_Witness ==
    /\ Done
    /\ video_duration = 1500
    /\ Len(ad_events) = 3
    /\ ad_events[2].video_time = 600
    /\ ad_events[3].video_time = 1200

\* C4: for d >= 0 the returned sequence is ordered by non-decreasing
\* video_time, starts with the only pre-roll (non-skippable, at 0), and a
\* post-roll, if any, is last and at video_time d.
C4_OrderedPreRollFirstPostRollLast ==
    (Done /\ video_duration >= 0) =>
        /\ \A j, k \in 1 .. Len(ad_events) :
              j < k => ad_events[j].video_time <= ad_events[k].video_time
        /\ Len(ad_events) >= 1
        /\ ad_events[1].position = "pre-roll"
        /\ ad_events[1].ad_type = "non-skippable"
        /\ ad_events[1].video_time = 0
        /\ Positions(ad_events, "pre-roll") = {1}
        /\ \A k \in Positions(ad_events, "post-roll") :
              /\ k = Len(ad_events)
              /\ ad_events[k].video_time = video_duration

C4_Witness ==
    /\ Done
    /\ video_duration = 1230
    /\ Len(ad_events) = 4
    /\ ad_events[3].video_time = 1170
    /\ ad_events[4].position = "post-roll"

\* C5 as stated: a negative duration or an empty video_id makes the call
\* fail before any event is emitted, so it never returns events.
C5_InvalidInputEmitsNothing ==
    (video_duration < 0 \/ video_id = "") =>
        /\ ad_events = <<>>
        /\ ~Done

\* C3 as stated: two calls with the same video_id, the same duration and the
\* same outcomes of the random draws return identical event sequences,
\* timestamps included.
C3_SameInputsSameOutput ==
    \A a, b \in 1 .. Len(returned) :
        (/\ returned[a].video_id = returned[b].video_id
         /\ returned[a].video_duration = returned[b].video_duration
         /\ returned[a].draws = returned[b].draws)
        => returned[a].events = returned[b].events

----------------------------------------------------------------------------
(* Properties of YouTubeAdAnalyzer.generate_summary_report *)

Reported == reports >= 1

CountsSum(lines) == SeqSum([k \in 1 .. Len(lines) |-> lines[k].count])

\* every row falls in exactly one line of the distribution, whose count is
\* the number of rows with that value
Partitions(lines, col) ==
    /\ \A k \in 1 .. Len(col) :
          Cardinality({j \in 1 .. Len(lines) : lines[j].name = col[k]}) = 1
    /\ \A j \in 1 .. Len(lines) :
          lines[j].count =
              Cardinality({k \in 1 .. Len(col) : col[k] = lines[j].name})

C8_ReportHasNoSideEffect ==
    [][(reports' = reports + 1) =>
          /\ df' = df
          /\ self_ad_events' = self_ad_events
          /\ (Reported => report' = report)]_vars

C8_Witness ==
    /\ reports = 2
    /\ Len(df) = 3
    /\ report.total_ads = 3

VideoIdsOf(d) == {d[k].video_id : k \in 1 .. Len(d)}
ShownIds == {report.per_video[k].video_id : k \in 1 .. Len(report.per_video)}

\* C9 as stated: with more than 5 distinct video_ids the videos shown are
\* the first 5 distinct video_ids in the order they are met in the corpus.
C9_FirstFiveInInsertionOrder ==
    (Reported /\ Cardinality(VideoIdsOf(df)) > 5) =>
        LET seen == Unique(Column(df, "video_id")) IN
        /\ Len(report.per_video) = 5
        /\ \A k \in 1 .. 5 : report.per_video[k].video_id = seen[k]

\* C9 amended: with more than 5 distinct video_ids the videos shown are the
\* 5 smallest video_ids in ascending string order, whatever the order of the
\* corpus; each shows its event count, its mean duration (to one decimal)
\* and its total duration.
C9_FiveSmallestIds ==
    (Reported /\ Cardinality(VideoIdsOf(df)) > 5) =>
        LET shown == report.per_video IN
        /\ Len(shown) = 5
        /\ \A j, k \in 1 .. 5 :
              j < k => StrLess(shown[j].video_id, shown[k].video_id)
        /\ ShownIds \subseteq VideoIdsOf(df)
        /\ \A v \in VideoIdsOf(df) \ ShownIds :
              \A w \in ShownIds : StrLess(w, v)
        /\ \A k \in 1 .. 5 :
              LET rows == {r \in 1 .. Len(df) :
                              df[r].video_id = shown[k].video_id}
                  total == SeqSum([r \in 1 .. Len(df) |->
                              IF r \in rows THEN df[r].duration ELSE 0])
                  gap == 10 * total - shown[k].mean.shown * Cardinality(rows)
              IN  /\ shown[k].count = Cardinality(rows)
                  /\ shown[k].sum = total
                  /\ shown[k].mean.value.num * Cardinality(rows) =
                         total * shown[k].mean.value.den
                  /\ 2 * gap <= Cardinality(rows)
                  /\ -2 * gap <= Cardinality(rows)

\* the video met first ("v2") is left out, the one met last is shown first
C9_Witness ==
    /\ Reported
    /\ Len(df) = 6
    /\ Cardinality(VideoIdsOf(df)) = 6
    /\ df[1].video_id = "v2"
    /\ df[6].video_id = "V3"
    /\ report.per_video[1].video_id = "V3"
    /\ report.per_video[5].video_id = "v10"
    /\ "v2" \notin ShownIds

\* the value at place p (from 1) of the durations put in ascending order
AtRank(col, p) ==
    CHOOSE x \in Range(col) :
        /\ Cardinality({k \in 1 .. Len(col) : col[k] < x}) < p
        /\ Cardinality({k \in 1 .. Len(col) : col[k] <= x}) >= p

Swapped(d, k) ==
    [j \in 1 .. Len(d) |-> IF j = k THEN d[k + 1]
                           ELSE IF j = k + 1 THEN d[k] ELSE d[j]]

DurationStats(d) ==
    LET col == Column(d, "duration")
    IN  <<SeriesMin(col), SeriesMax(col), SeriesMean(col), SeriesMedian(col)>>

\* C10: over a corpus of N >= 1 events, min and max are the smallest and the
\* largest duration, the mean is sum/N, the median is the middle value of
\* the ordered durations for odd N and the average of the two central ones
\* for even N; exchanging two neighbouring events changes none of them.
C10_DurationStatistics ==
    (Reported /\ Len(df) > 0) =>
        LET col == Column(df, "duration")
            N == Len(df)
            med == report.median.value
        IN  /\ report.shortest \in Range(col)
            /\ \A k \in 1 .. N : report.shortest <= col[k]
            /\ report.longest \in Range(col)
            /\ \A k \in 1 .. N : col[k] <= report.longest
            /\ report.avg_duration.value.num * N =
                  SeqSum(col) * report.avg_duration.value.den
            /\ IF N % 2 = 1
               THEN med.num = AtRank(col, (N + 1) \div 2) * med.den
               ELSE 2 * med.num =
                       (AtRank(col, N \div 2) + AtRank(col, (N \div 2) + 1))
                           * med.den
            /\ \A k \in 1 .. (N - 1) :
                  DurationStats(Swapped(df, k)) =
                      <<report.shortest, report.longest,
                        report.avg_duration.value, report.median.value>>

\* the scenario of the specification: durations 15, 30, 6
C10_Witness ==
    /\ Reported
    /\ Column(df, "duration") = <<15, 30, 6>>
    /\ report.shortest = 6
    /\ report.longest = 30
    /\ report.avg_duration.shown = 170
    /\ report.median.shown = 150

----------------------------------------------------------------------------
(* Properties of YouTubeAdAnalyzer.create_dataframe *)

----------------------------------------------------------------------------
(* Further properties of simulate_ad_events *)

\* C12: for d >= 0, with a clock that does not go backwards between the
\* reads of one call, the timestamps of the returned events are
\* non-decreasing in the order of the sequence.
C12_TimestampsNonDecreasing ==
    (Done /\ video_duration >= 0) =>
        \A j, k \in 1 .. Len(ad_events) :
            j < k => ad_events[j].startTime <= ad_events[k].startTime

\* pre-roll, two mid-rolls and a post-roll, the clock moving during the call
C12_Witness ==
    /\ Done
    /\ video_duration = 1260
    /\ Len(ad_events) = 4
    /\ now = MaxNow
    /\ ad_events[1].startTime = 0
    /\ ad_events[2].startTime = 605001
    /\ ad_events[3].startTime = 1205001
    /\ ad_events[4].startTime = 1270002

\* C14: for d > 600 the mid-rolls have strictly increasing video_time, each
\* above 0 and below d; every mid-roll but the last is at k*600, the clamp
\* to d-60 can only move the last one.
C14_MidRollsStrictlyInside ==
    (Done /\ video_duration > 600) =>
        LET mids == Positions(ad_events, "mid-roll")
            last == video_duration \div 600
        IN  /\ mids # {}
            /\ \A j, k \in mids :
                  j < k => ad_events[j].video_time < ad_events[k].video_time
            /\ \A k \in mids :
                  /\ ad_events[k].video_time > 0
                  /\ ad_events[k].video_time < video_duration
                  /\ (k - 1 < last) => ad_events[k].video_time = (k - 1) * 600

\* three mid-rolls, the last one moved from 1800 to 1770 by the clamp
C14_Witness ==
    /\ Done
    /\ video_duration = 1830
    /\ Positions(ad_events, "mid-roll") = {2, 3, 4}
    /\ ad_events[2].video_time = 600
    /\ ad_events[3].video_time = 1200
    /\ ad_events[4].video_time = 1770

----------------------------------------------------------------------------
(* Property of the generator's output given to the analyzer *)

\* C13 as stated: every row made from a generated event (of a call with a
\* non-empty video_id) carries the event's video_id, ad_type, position,
\* duration and video_time.
C13_GeneratedEventsSurviveIngestion ==
    (pc = "constructed" /\ video_id # "") =>
        /\ Len(df) = Len(ad_events)
        /\ \A k \in 1 .. Len(ad_events) :
              /\ df[k].video_id = ad_events[k].video_id
              /\ df[k].ad_type = ad_events[k].ad_type
              /\ df[k].position = ad_events[k].position
              /\ df[k].duration = ad_events[k].duration
              /\ df[k].video_time = ad_events[k].video_time

====
